---- MODULE Spec2Model ----
(***************************************************************************)
(* Slotted heap pages (HeapPage), the paged heap file built on them        *)
(* (HeapFile) and the page I/O of DbFile.                                  *)
(*                                                                         *)
(* A page is a byte buffer of PageBytes bytes, bytes numbered from 0.  A   *)
(* tuple is handled by its serialized image: td.length() bytes.            *)
(***************************************************************************)
EXTENDS Integers, Sequences, FiniteSets, TLC

\* ------------------------------------------------------------------ bounds

\* Size of a page buffer in bytes (page.size()); scaled down from the build's.
PageBytes == 11
\* Largest schema byte width td.length() the page model draws; the file
\* model draws the next wider ones, whose pages fill within MaxLog inserts.
MaxTdLen == 2
\* Largest number of whole pages the backing file holds when it is opened.
MaxInitPages == 2
\* Longest reads log explored.
MaxLog == 4
\* How far past capacity a slot argument may lie.
MaxSlotOver == 1
\* Ranges of page size and tuple width for the capacity computation.
MaxCapPage == 24
MaxCapTuple == 6

\* Byte values a tuple image is drawn from, and the values a read outside
\* the page buffer may produce.
TupleByteVals == {255}
UBBytes == {0, 255}

VARIABLES
    tdLen,      \* td.length(): byte width of one tuple of the schema
    page,       \* the caller's page buffer a HeapPage view is wrapped around
    hpRet,      \* the last HeapPage call: operation, slot, result
    stPages,    \* st_size / DEFAULT_PAGE_SIZE at the time the file was opened;
                \* the pages the file then holds are zeroed and hold no tuple
    numPages,   \* DbFile::numPages
    reads,      \* DbFile::reads
    writes,     \* DbFile::writes
    it,         \* the caller's Iterator: <<page, slot>>
    hfRet,      \* the last HeapFile call: operation, cursor, result
    nInserts,   \* number of HeapFile::insertTuple calls that returned
    landed,     \* cursors a returned insertTuple serialized its tuple at,
                \* less those a returned deleteTuple removed
    capP,       \* page.size() handed to the HeapPage constructor
    capT,       \* td.length() handed to the HeapPage constructor
    capC,       \* <<capacity, data offset>> the constructor computed, or <<>>
    td,         \* the TupleDesc under test: tupleTypes, tupleNames, and whether
                \* its constructor returned
    cRet        \* the last TupleDesc call: operation, arguments, result

vars == <<tdLen, page, hpRet, stPages, numPages, reads, writes, it, hfRet,
          nInserts, landed, capP, capT, capC, td, cRet>>

pageVars == <<page, hpRet>>
fileVars == <<stPages, numPages, reads, writes, it, hfRet, nInserts, landed>>
capVars == <<capP, capT, capC>>
codecVars == <<td, cRet>>

\* ------------------------------------------------------------ bit helpers

Pow2(k) == IF k = 0 THEN 1 ELSE IF k = 1 THEN 2 ELSE IF k = 2 THEN 4
           ELSE IF k = 3 THEN 8 ELSE IF k = 4 THEN 16 ELSE IF k = 5 THEN 32
           ELSE IF k = 6 THEN 64 ELSE 128

\* (b & (1 << k)) != 0
BitIsSet(b, k) == (b \div Pow2(k)) % 2 = 1

\* b | (1 << k)
OrBit(b, k) == IF BitIsSet(b, k) THEN b ELSE b + Pow2(k)

\* b & ~(1 << k)
ClearBit(b, k) == IF BitIsSet(b, k) THEN b - Pow2(k) ELSE b

\* --------------------------------------------------------------- HeapPage

\* Page{}: a value-initialised buffer.
ZeroPage == [i \in 0..(PageBytes - 1) |-> 0]

\* CapacityOf with the header bit of each slot left out of the divisor.
CapacityOfNoHeaderBit(P, T) == (P * 8) \div (T * 8)

\* capacity = (page.size() * 8) / (td.length() * 8 + 1)
CapacityOf(P, T) == (P * 8) \div (T * 8 + 1)

\* offset = page.size() - capacity * td.length(); data = header + offset
DataOffsetOf(P, T) == P - CapacityOf(P, T) * T

capacity == CapacityOf(PageBytes, tdLen)
dataOffset == DataOffsetOf(PageBytes, tdLen)

\* HeapPage::end
HP_end == capacity

\* HeapPage::empty: bit 7 - slot % 8 of header[slot / 8] is 0.
empty(pg, slot) == ~BitIsSet(pg[slot \div 8], 7 - (slot % 8))

\* HeapPage::begin: while (slot < capacity && empty(slot)) slot++
RECURSIVE BeginScan(_, _)
BeginScan(pg, slot) ==
    IF slot < capacity /\ empty(pg, slot) THEN BeginScan(pg, slot + 1) ELSE slot

HP_begin(pg) == BeginScan(pg, 0)

\* InsertScan stopping one slot short of capacity.
RECURSIVE InsertScanOffByOne(_, _)
InsertScanOffByOne(pg, slot) ==
    IF ~empty(pg, slot) /\ slot < capacity - 1
    THEN InsertScanOffByOne(pg, slot + 1) ELSE slot

\* The scan of HeapPage::insertTuple: while (!empty(slot) && slot < capacity)
RECURSIVE InsertScan(_, _)
InsertScan(pg, slot) ==
    IF ~empty(pg, slot) /\ slot < capacity THEN InsertScan(pg, slot + 1) ELSE slot

\* SerializeAt writing from the start of the buffer, not from data.
SerializeAtNoOffset(pg, slot, t) ==
    LET off == slot * tdLen
    IN [i \in 0..(PageBytes - 1) |->
           IF i >= off /\ i < off + tdLen THEN t[i - off + 1] ELSE pg[i]]

\* td.serialize(data + slot * td.length(), t): the tuple's image over the slot.
SerializeAt(pg, slot, t) ==
    LET off == dataOffset + slot * tdLen
    IN [i \in 0..(PageBytes - 1) |->
           IF i >= off /\ i < off + tdLen THEN t[i - off + 1] ELSE pg[i]]

\* SetHeaderBit numbering the bits of a byte from the least significant.
SetHeaderBitLsbFirst(pg, slot) ==
    [pg EXCEPT ![slot \div 8] = OrBit(pg[slot \div 8], slot % 8)]

\* header[slot / 8] |= (1 << (7 - (slot % 8)))
SetHeaderBit(pg, slot) ==
    [pg EXCEPT ![slot \div 8] = OrBit(pg[slot \div 8], 7 - (slot % 8))]

\* ClearHeaderBit zeroing the whole header byte of the slot.
ClearHeaderBitWholeByte(pg, slot) ==
    [pg EXCEPT ![slot \div 8] = 0]

\* header[slot / 8] &= ~(1 << (7 - (slot % 8)))
ClearHeaderBit(pg, slot) ==
    [pg EXCEPT ![slot \div 8] = ClearBit(pg[slot \div 8], 7 - (slot % 8))]

\* HeapPage::insertTuple: the result, the slot the scan stopped at, the buffer.
HP_insertTuple(pg, t) ==
    LET slot == InsertScan(pg, 0)
    IN IF slot = capacity
       THEN [ok |-> FALSE, slot |-> slot, page |-> pg]
       ELSE [ok |-> TRUE, slot |-> slot,
             page |-> SetHeaderBit(SerializeAt(pg, slot, t), slot)]

\* HeapPage::deleteTuple without the check of the slot.
HP_deleteTupleUnchecked(pg, slot) ==
    [threw |-> FALSE, page |-> ClearHeaderBit(pg, slot)]

\* HeapPage::deleteTuple: throws std::logic_error on an empty slot.
HP_deleteTuple(pg, slot) ==
    IF empty(pg, slot)
    THEN [threw |-> TRUE, page |-> pg]
    ELSE [threw |-> FALSE, page |-> ClearHeaderBit(pg, slot)]

\* The td.length() bytes td.deserialize copies from buffer index off on.  A
\* byte past the end of the buffer is read out of bounds and holds whatever
\* lies there: g.
ImageAt(pg, off, g) ==
    [k \in 1..tdLen |-> IF off + k - 1 < PageBytes THEN pg[off + k - 1] ELSE g]

\* HeapPage::getTuple: td.deserialize(data + slot * td.length()); no check of
\* the slot.  The set of images the call can return.
HP_getTuple(pg, slot) ==
    {ImageAt(pg, dataOffset + slot * tdLen, g) : g \in UBBytes}

\* The scan of HeapPage::next: while (empty(slot) && slot < capacity) slot++
RECURSIVE NextScan(_, _)
NextScan(pg, slot) ==
    IF empty(pg, slot) /\ slot < capacity THEN NextScan(pg, slot + 1) ELSE slot

\* HeapPage::next without the slot++ before the scan.
HP_nextNoIncrement(pg, slot) == NextScan(pg, slot)

\* HeapPage::next: slot++, then the scan.
HP_next(pg, slot) == NextScan(pg, slot + 1)

\* ------------------------------------------------- inputs of the models

\* The serialized images of the tuples handed to insertTuple.
RECURSIVE ImagesOfLen(_)
ImagesOfLen(k) ==
    IF k = 0 THEN {<<>>}
    ELSE {Append(s, b) : s \in ImagesOfLen(k - 1), b \in TupleByteVals}

Tuples == ImagesOfLen(tdLen)

\* Slot arguments: every slot of the page, the end sentinel, and beyond.
SlotArgs == 0..(capacity + MaxSlotOver)

\* Slot arguments of deleteTuple when any number is passed: every slot number
\* whose bit header[slot / 8] lies in the header, and the first ones behind
\* it, whose bit lies in the first byte of the data.
AnySlotArgs == 0..(8 * dataOffset + MaxSlotOver - 1)

NoCall == [op |-> "none", arg |-> -1, res |-> -1, ok |-> TRUE, tuple |-> <<>>]

\* ------------------------------------------ HeapPage on a caller's buffer

HPInsert(t) ==
    LET r == HP_insertTuple(page, t)
    IN /\ page' = r.page
       /\ hpRet' = [op |-> "insert", arg |-> -1, res |-> r.slot, ok |-> r.ok,
                    tuple |-> t]
       /\ UNCHANGED <<tdLen, fileVars, capVars, codecVars>>

HPDelete(slot) ==
    LET r == HP_deleteTuple(page, slot)
    IN /\ page' = r.page
       /\ hpRet' = [op |-> "delete", arg |-> slot, res |-> -1, ok |-> ~r.threw,
                    tuple |-> <<>>]
       /\ UNCHANGED <<tdLen, fileVars, capVars, codecVars>>

HPGet(slot) ==
    /\ \E t \in HP_getTuple(page, slot) :
           hpRet' = [op |-> "get", arg |-> slot, res |-> -1, ok |-> TRUE,
                     tuple |-> t]
    /\ UNCHANGED <<tdLen, page, fileVars, capVars, codecVars>>

HPBegin ==
    /\ hpRet' = [op |-> "begin", arg |-> -1, res |-> HP_begin(page), ok |-> TRUE,
                 tuple |-> <<>>]
    /\ UNCHANGED <<tdLen, page, fileVars, capVars, codecVars>>

HPNext(slot) ==
    /\ hpRet' = [op |-> "next", arg |-> slot, res |-> HP_next(page, slot),
                 ok |-> TRUE, tuple |-> <<>>]
    /\ UNCHANGED <<tdLen, page, fileVars, capVars, codecVars>>

HPEmpty(slot) ==
    /\ hpRet' = [op |-> "empty", arg |-> slot, res |-> -1,
                 ok |-> empty(page, slot), tuple |-> <<>>]
    /\ UNCHANGED <<tdLen, page, fileVars, capVars, codecVars>>

\* File and constructor variables are held at their values when the model is
\* of a page alone.
FileIdle ==
    /\ stPages = 0 /\ numPages = 1 /\ reads = <<>> /\ writes = <<>>
    /\ it = <<0, 0>> /\ hfRet = NoCall /\ nInserts = 0 /\ landed = {}

CapIdle == capP = PageBytes /\ capT = 1 /\ capC = <<>>

PageIdle == page = ZeroPage /\ hpRet = NoCall

\* No TupleDesc constructed, no call made on one.
NoTupleDesc == [ok |-> FALSE, types |-> <<>>, names |-> <<>>]
NoCodecCall == [op |-> "none", ok |-> TRUE, a |-> <<>>, b |-> <<>>, out |-> <<>>]

CodecIdle == td = NoTupleDesc /\ cRet = NoCodecCall

InitPage ==
    /\ tdLen \in 1..MaxTdLen
    /\ page = ZeroPage
    /\ hpRet = NoCall
    /\ FileIdle
    /\ CapIdle
    /\ CodecIdle

NextPage ==
    \/ \E t \in Tuples : HPInsert(t)
    \/ \E slot \in SlotArgs : HPDelete(slot)
    \/ \E slot \in SlotArgs : HPGet(slot)
    \/ HPBegin
    \/ \E slot \in SlotArgs : HPNext(slot)
    \/ \E slot \in SlotArgs : HPEmpty(slot)

SpecPage == InitPage /\ [][NextPage]_vars

\* insertTuple and deleteTuple alone, deleteTuple with any slot number.
NextPageAnySlot ==
    \/ \E t \in Tuples : HPInsert(t)
    \/ \E slot \in AnySlotArgs : HPDelete(slot)

SpecPageAnySlot == InitPage /\ [][NextPageAnySlot]_vars

\* --------------------------------------------- the HeapPage constructor

\* HeapPage::HeapPage: capacity and the offset of the data region.
Construct ==
    /\ capC = <<>>
    /\ capC' = <<CapacityOf(capP, capT), DataOffsetOf(capP, capT)>>
    /\ UNCHANGED <<tdLen, pageVars, fileVars, capP, capT, codecVars>>

InitCap ==
    /\ capP \in 1..MaxCapPage
    /\ capT \in 1..MaxCapTuple
    /\ capC = <<>>
    /\ tdLen = 1
    /\ PageIdle
    /\ FileIdle
    /\ CodecIdle

NextCap == Construct

SpecCap == InitCap /\ [][NextCap]_vars

\* ------------------------------------------------------ DbFile, HeapFile

\* DbFile::readPage(page, id): records id in reads and returns; the buffer is
\* left as the caller passed it (the pread is not there).  The buffer after
\* the call.
readPage(pg, id) == pg

\* DbFile::DbFile: numPages = st_size / DEFAULT_PAGE_SIZE, 1 if that is 0.
OpenNumPages(filePages) == IF filePages = 0 THEN 1 ELSE filePages

\* HeapFile::end: reads page 0; Iterator(numPages - 1, hp.end()).
HF_end == <<numPages - 1, HP_end>>

\* HeapFile::insertTuple trying the first page of the file, not the last.
HF_insertTupleFirstPage(t) ==
    LET pg == readPage(ZeroPage, 0)
        hp == HP_insertTuple(pg, t)
        newhp == HP_insertTuple(ZeroPage, t)
        np == IF hp.ok THEN numPages ELSE numPages + 1
    IN [numPages |-> np,
        rd |-> <<0>>,
        wr |-> <<IF hp.ok THEN 0 ELSE np - 1>>,
        at |-> IF hp.ok THEN <<0, hp.slot>> ELSE <<np - 1, newhp.slot>>]

\* HeapFile::insertTuple.  The page count after the call, the page ids read
\* and written, the cursor the tuple was serialized at.
HF_insertTuple(t) ==
    LET pg == readPage(ZeroPage, numPages - 1)
        hp == HP_insertTuple(pg, t)
        newhp == HP_insertTuple(ZeroPage, t)
        np == IF hp.ok THEN numPages ELSE numPages + 1
    IN [numPages |-> np,
        rd |-> <<numPages - 1>>,
        wr |-> <<np - 1>>,
        at |-> IF hp.ok THEN <<numPages - 1, hp.slot>> ELSE <<np - 1, newhp.slot>>]

\* HeapFile::deleteTuple: the exception of HeapPage::deleteTuple leaves the
\* function before writePage.
HF_deleteTuple(c) ==
    LET pg == readPage(ZeroPage, c[1])
        hp == HP_deleteTuple(pg, c[2])
    IN [threw |-> hp.threw,
        rd |-> <<c[1]>>,
        wr |-> IF hp.threw THEN <<>> ELSE <<c[1]>>]

\* HeapFile::getTuple: the images the call can return.
HF_getTuple(c) == HP_getTuple(readPage(ZeroPage, c[1]), c[2])

\* HeapFile::begin from page i on: the cursor and the page ids read.
RECURSIVE BeginFrom(_)
BeginFrom(i) ==
    IF i < numPages
    THEN LET pg == readPage(ZeroPage, i)
             slot == HP_begin(pg)
         IN IF slot # HP_end
            THEN [it |-> <<i, slot>>, rd |-> <<i>>]
            ELSE LET r == BeginFrom(i + 1)
                 IN [it |-> r.it, rd |-> <<i>> \o r.rd]
    ELSE [it |-> HF_end, rd |-> <<0>>]

HF_begin == BeginFrom(0)

\* HeapFile::next: one round of the while (!found) loop per call of NextLoop.
RECURSIVE NextLoop(_)
NextLoop(c) ==
    LET pg == readPage(ZeroPage, c[1])
        slot == HP_next(pg, c[2])
    IN IF slot = HP_end /\ c[1] < numPages - 1
       THEN LET pg2 == readPage(pg, c[1] + 1)
            IN IF ~empty(pg2, 0)
               THEN [it |-> <<c[1] + 1, 0>>, rd |-> <<c[1], c[1] + 1>>]
               ELSE LET r == NextLoop(<<c[1] + 1, 0>>)
                    IN [it |-> r.it, rd |-> <<c[1], c[1] + 1>> \o r.rd]
       ELSE [it |-> <<c[1], slot>>, rd |-> <<c[1]>>]

HF_next(c) == NextLoop(c)

\* Cursor arguments of getTuple and deleteTuple: every page of the file and
\* the one past it, every slot, the end sentinel and beyond.
CursorArgs == (0..numPages) \X SlotArgs

FileCall(op, c, ok, t) ==
    [op |-> op, arg |-> c, res |-> -1, ok |-> ok, tuple |-> t]

InsertTuple(t) ==
    LET r == HF_insertTuple(t)
    IN /\ Len(reads) + Len(r.rd) <= MaxLog
       /\ numPages' = r.numPages
       /\ reads' = reads \o r.rd
       /\ writes' = writes \o r.wr
       /\ nInserts' = nInserts + 1
       /\ landed' = landed \cup {r.at}
       /\ hfRet' = FileCall("insert", r.at, TRUE, t)
       /\ UNCHANGED <<tdLen, pageVars, capVars, codecVars, stPages, it>>

DeleteTuple(c) ==
    LET r == HF_deleteTuple(c)
    IN /\ Len(reads) + Len(r.rd) <= MaxLog
       /\ reads' = reads \o r.rd
       /\ writes' = writes \o r.wr
       /\ landed' = IF r.threw THEN landed ELSE landed \ {c}
       /\ hfRet' = FileCall("delete", c, ~r.threw, <<>>)
       /\ UNCHANGED <<tdLen, pageVars, capVars, codecVars, stPages, numPages, it, nInserts>>

GetTuple(c) ==
    /\ Len(reads) + 1 <= MaxLog
    /\ reads' = Append(reads, c[1])
    /\ \E t \in HF_getTuple(c) : hfRet' = FileCall("get", c, TRUE, t)
    /\ UNCHANGED <<tdLen, pageVars, capVars, codecVars, stPages, numPages, writes, it,
                   nInserts, landed>>

Begin ==
    LET r == HF_begin
    IN /\ Len(reads) + Len(r.rd) <= MaxLog
       /\ reads' = reads \o r.rd
       /\ it' = r.it
       /\ hfRet' = FileCall("begin", r.it, TRUE, <<>>)
       /\ UNCHANGED <<tdLen, pageVars, capVars, codecVars, stPages, numPages, writes,
                      nInserts, landed>>

Next ==
    LET r == HF_next(it)
    IN /\ it[2] <= capacity + MaxSlotOver
       /\ Len(reads) + Len(r.rd) <= MaxLog
       /\ reads' = reads \o r.rd
       /\ it' = r.it
       /\ hfRet' = FileCall("next", it, TRUE, <<>>)
       /\ UNCHANGED <<tdLen, pageVars, capVars, codecVars, stPages, numPages, writes,
                      nInserts, landed>>

InitFile ==
    /\ tdLen \in (MaxTdLen + 1)..(MaxTdLen + 2)
    /\ stPages \in 0..MaxInitPages
    /\ numPages = OpenNumPages(stPages)
    /\ reads = <<>>
    /\ writes = <<>>
    /\ it = <<0, 0>>
    /\ hfRet = NoCall
    /\ nInserts = 0
    /\ landed = {}
    /\ PageIdle
    /\ CapIdle
    /\ CodecIdle

NextFile ==
    \/ \E t \in Tuples : InsertTuple(t)
    \/ \E c \in CursorArgs : DeleteTuple(c)
    \/ \E c \in CursorArgs : GetTuple(c)
    \/ Begin
    \/ Next

SpecFile == InitFile /\ [][NextFile]_vars

\* ------------------------------------------------------------ properties

\* The slots of a page whose header bit is set.
OccupiedSlots(pg) == {s \in 0..(capacity - 1) : ~empty(pg, s)}

\* (page, slot) order of cursors.
CursorLess(a, b) == a[1] < b[1] \/ (a[1] = b[1] /\ a[2] < b[2])

\* The cursors a scan visits: from c by HeapFile::next until end(), at most
\* fuel of them.
RECURSIVE Walk(_, _)
Walk(c, fuel) ==
    IF c = HF_end \/ fuel = 0 THEN <<>>
    ELSE <<c>> \o Walk(HF_next(c).it, fuel - 1)

Scan == Walk(HF_begin.it, numPages * capacity + 1)

\* C1: a scan from begin() by next() to end() visits exactly the cursors that
\* hold a tuple (inserted and not deleted since), in increasing (page, slot)
\* order, each once.
C1_ScanVisitsOccupied ==
    /\ {Scan[i] : i \in DOMAIN Scan} = landed
    /\ \A i, j \in DOMAIN Scan : i < j => CursorLess(Scan[i], Scan[j])

\* C2: on a file opened empty the page count is 1 through the first
\* `capacity` inserts, and the insert after them makes it 2 and puts its
\* tuple at (page 1, slot 0).
C2_GrowthOnFullPage ==
    /\ (stPages = 0 /\ nInserts <= capacity) => numPages = 1
    /\ (stPages = 0 /\ nInserts = capacity + 1 /\ hfRet.op = "insert")
          => (numPages = 2 /\ hfRet.arg = <<1, 0>>)

\* C3: an insertTuple call reads the last page and no other, adds a page only
\* when the page it read is full, and calls writePage once, for the page the
\* tuple was serialized into, which is page numPages - 1 after the call.
C3_InsertWritesLastPage ==
    [][(hfRet'.op = "insert" /\ reads' # reads) =>
          /\ reads' = Append(reads, numPages - 1)
          /\ writes' = Append(writes, numPages' - 1)
          /\ hfRet'.arg[1] = numPages' - 1
          /\ numPages' \in {numPages, numPages + 1}
          /\ (numPages' = numPages + 1 =>
                OccupiedSlots(readPage(ZeroPage, numPages - 1)) = 0..(capacity - 1))
      ]_vars

C3_Witness ==
    /\ hfRet.op = "insert"
    /\ numPages > 1
    /\ hfRet.arg[1] = numPages - 1
    /\ writes # <<>>
    /\ writes[Len(writes)] = numPages - 1

\* C4: a deleteTuple call on a cursor whose slot is empty in the page it
\* loads throws, and leaves the page count, the pages written and the page
\* buffer as they were.
C4_DeleteEmptyFails ==
    [][(/\ hfRet'.op = "delete"
        /\ reads' # reads
        /\ hfRet'.arg[2] < capacity
        /\ empty(readPage(ZeroPage, hfRet'.arg[1]), hfRet'.arg[2])) =>
          /\ ~hfRet'.ok
          /\ numPages' = numPages
          /\ writes' = writes
          /\ HP_deleteTuple(readPage(ZeroPage, hfRet'.arg[1]), hfRet'.arg[2]).page
                = readPage(ZeroPage, hfRet'.arg[1])
      ]_vars

C4_Witness ==
    /\ hfRet.op = "delete"
    /\ ~hfRet.ok
    /\ hfRet.arg[1] < numPages
    /\ hfRet.arg[2] < capacity
    /\ writes = <<>>
    /\ Len(reads) >= 2
    /\ reads[Len(reads)] = reads[Len(reads) - 1]

\* C5: getTuple and deleteTuple at end() or at a cursor out of range (page
\* index >= numPages or slot >= capacity) fail: they return no tuple and
\* change no page.
C5_OutOfRangeFails ==
    (/\ hfRet.op \in {"get", "delete"}
     /\ (hfRet.arg[1] >= numPages \/ hfRet.arg[2] >= capacity)) => ~hfRet.ok

\* C6: after insertTuple succeeds into slot i, empty(i) is false; after
\* deleteTuple(i) of an occupied slot i of the page, empty(i) is true.
C6_OccupancyFollowsOps ==
    /\ (hpRet.op = "insert" /\ hpRet.ok) =>
          (hpRet.res \in 0..(capacity - 1) /\ ~empty(page, hpRet.res))
    /\ (hpRet.op = "delete" /\ hpRet.ok /\ hpRet.arg < capacity) =>
          empty(page, hpRet.arg)

C6_Witness ==
    /\ hpRet.op = "delete"
    /\ hpRet.ok
    /\ hpRet.arg = 0
    /\ OccupiedSlots(page) = 1..(capacity - 1)
    /\ capacity >= 2

\* C7: insertTuple returns false exactly when every slot of the page is
\* occupied, and then leaves the page as it was; a successful insert occupies
\* one more slot, so `capacity` inserts into a zeroed page succeed and the
\* next one fails.
C7_InsertFailsIffFull ==
    [][(hpRet'.op = "insert") =>
          /\ hpRet'.ok <=> (OccupiedSlots(page) # 0..(capacity - 1))
          /\ ~hpRet'.ok => page' = page
          /\ hpRet'.ok =>
                /\ hpRet'.res \notin OccupiedSlots(page)
                /\ OccupiedSlots(page)' = OccupiedSlots(page) \cup {hpRet'.res}
      ]_vars

C7_Witness ==
    /\ hpRet.op = "insert"
    /\ ~hpRet.ok
    /\ OccupiedSlots(page) = 0..(capacity - 1)

\* C8: begin() returns the smallest cursor that holds a tuple, and end() when
\* none does; begin() = end() exactly when the file holds no tuple.
C8_BeginIsSmallestOccupied ==
    hfRet.op = "begin" =>
       /\ (landed = {} => it = HF_end)
       /\ (landed # {} => it \in landed /\ \A c \in landed : ~CursorLess(c, it))
       /\ (it = HF_end <=> landed = {})

\* C9: every cursor begin() and next() produce has page < numPages and
\* slot <= capacity, next() moves forward, and next() at end() stays at end().
C9_NextStaysInRange ==
    /\ hfRet.op \in {"begin", "next"} => (it[1] < numPages /\ it[2] <= capacity)
    /\ (hfRet.op = "next" /\ hfRet.arg = HF_end) => it = HF_end

\* C10: the capacity the constructor computes is the largest c with
\* c * T * 8 + c <= P * 8; the header, the bytes before the data region,
\* holds at least c bits, and header and data fit in the page.
C10_CapacityMaximal ==
    capC # <<>> =>
       LET c == capC[1]
           headerBytes == capC[2]
       IN /\ c * capT * 8 + c <= capP * 8
          /\ (c + 1) * capT * 8 + (c + 1) > capP * 8
          /\ headerBytes >= 0
          /\ headerBytes * 8 >= c
          /\ c * capT + headerBytes <= capP

C10_Witness ==
    /\ capC # <<>>
    /\ capC[1] >= 2
    /\ capC[2] * 8 = capC[1]

\* C11: the HeapPage constructor fails when the capacity it computes is 0 (a
\* tuple wider than the page), so no page view with capacity 0 exists.
C11_NoViewWithoutSlots ==
    capC # <<>> => capC[1] >= 1


-----------------------------------------------------------------------------
\* TupleDesc (Tuple.cpp): schemas, field offsets, the byte codec, merge.

\* Field widths.  INT_SIZE and DOUBLE_SIZE are the widths of int and double
\* that serialize/deserialize copy; CHAR_SIZE is scaled down.
INT_SIZE == 4
DOUBLE_SIZE == 8
CHAR_SIZE == 2
MaxFields == 2

Types == {"INT", "DOUBLE", "CHAR"}
Names == {"a", "b", "c"}

SeqsUpTo(S, n) == UNION {[1..k -> S] : k \in 0..n}

TypeSize(type) ==
    CASE type = "INT" -> INT_SIZE
      [] type = "DOUBLE" -> DOUBLE_SIZE
      [] type = "CHAR" -> CHAR_SIZE

\* TupleDesc::TupleDesc without the length test.
TD_newNoLengthCheck(types, names) ==
    IF \E i, j \in 1..Len(names) : i < j /\ names[i] = names[j]
    THEN NoTupleDesc
    ELSE [ok |-> TRUE, types |-> types, names |-> names]

\* TupleDesc::TupleDesc: throws on a repeated name, then on lists of
\* different lengths; otherwise keeps both lists.
TD_new(types, names) ==
    IF \E i, j \in 1..Len(names) : i < j /\ names[i] = names[j]
    THEN NoTupleDesc
    ELSE IF Len(types) # Len(names)
    THEN NoTupleDesc
    ELSE [ok |-> TRUE, types |-> types, names |-> names]

TD_size(d) == Len(d.types)

\* Sum of the widths of the first n fields.
RECURSIVE WidthsBefore(_, _)
WidthsBefore(types, n) ==
    IF n = 0 THEN 0 ELSE WidthsBefore(types, n - 1) + TypeSize(types[n])

TD_length(d) == WidthsBefore(d.types, Len(d.types))

\* TupleDesc::offset_of.  size() - 1 is unsigned, so on a schema with no
\* fields the range test never fires; tupleTypes.at(i) then throws for the
\* first i >= size() the loop reaches.
TD_offset_of(d, index) ==
    IF index = 0 THEN [threw |-> FALSE, value |-> 0]
    ELSE IF TD_size(d) # 0 /\ index > TD_size(d) - 1
    THEN [threw |-> TRUE, value |-> 0]
    ELSE IF index - 1 >= TD_size(d)
    THEN [threw |-> TRUE, value |-> 0]
    ELSE [threw |-> FALSE, value |-> WidthsBefore(d.types, index)]

\* TupleDesc::compatible.
TD_compatible(d, t) ==
    /\ Len(t) = TD_size(d)
    /\ \A i \in 1..Len(t) : t[i].type = d.types[i]

RECURSIVE Pow256(_)
Pow256(k) == IF k = 0 THEN 1 ELSE 256 * Pow256(k - 1)

\* The object representation of an int: INT_SIZE bytes, least significant
\* first, two's complement.
IntBytes(n) == [k \in 1..INT_SIZE |-> (n \div Pow256(k - 1)) % 256]

RECURSIVE IntOfBytes(_, _)
IntOfBytes(b, k) ==
    IF k = INT_SIZE
    THEN (IF b[k] >= 128 THEN b[k] - 256 ELSE b[k]) * Pow256(k - 1)
    ELSE b[k] * Pow256(k - 1) + IntOfBytes(b, k + 1)

\* memcpy(data + offset, str.c_str(), CHAR_SIZE): the characters, the
\* terminator, and past it whatever lies behind the string's storage (g);
\* a longer string is cut at CHAR_SIZE and stored without terminator.
CharBytes(s, g) ==
    [k \in 1..CHAR_SIZE |-> IF k <= Len(s) THEN s[k]
                            ELSE IF k = Len(s) + 1 THEN 0 ELSE g]

\* std::string(char *) reads up to the first 0; when the CHAR_SIZE bytes
\* hold none it reads on behind the array (sfx).
StringOfBytes(b, sfx) ==
    IF \E k \in 1..Len(b) : b[k] = 0
    THEN SubSeq(b, 1, (CHOOSE k \in 1..Len(b) :
                          b[k] = 0 /\ \A m \in 1..(k - 1) : b[m] # 0) - 1)
    ELSE b \o sfx

OverRead == {<<>>} \cup {<<g>> : g \in UBBytes \ {0}}

FieldBytes(f, g) ==
    CASE f.type = "CHAR" -> CharBytes(f.v, g)
      [] f.type = "DOUBLE" -> f.v
      [] f.type = "INT" -> IntBytes(f.v)

\* TupleDesc::serialize: the bytes written from data[0] on.
RECURSIVE SerializeFields(_, _, _)
SerializeFields(t, n, g) ==
    IF n = 0 THEN <<>>
    ELSE SerializeFields(t, n - 1, g) \o FieldBytes(t[n], g)

TD_serialize(d, t, g) == SerializeFields(t, TD_size(d), g)

FieldOfBytes(type, b, sfx) ==
    CASE type = "CHAR" -> [type |-> "CHAR", v |-> StringOfBytes(b, sfx)]
      [] type = "DOUBLE" -> [type |-> "DOUBLE", v |-> b]
      [] type = "INT" -> [type |-> "INT", v |-> IntOfBytes(b, 1)]

\* TupleDesc::deserialize.
TD_deserialize(d, data, sfx) ==
    [i \in 1..TD_size(d) |->
        FieldOfBytes(d.types[i],
                     SubSeq(data, WidthsBefore(d.types, i - 1) + 1,
                                  WidthsBefore(d.types, i)),
                     sfx)]

\* deserialize releases storage obtained with new / new[] through free():
\* the call returns, or the allocator stops the program.
FreeOutcomes == {"returns", "aborts"}

\* TupleDesc::merge with td2's fields put first.
TD_mergeSecondFirst(d1, d2) ==
    IF \E i \in 1..TD_size(d1), j \in 1..TD_size(d2) : d1.names[i] = d2.names[j]
    THEN NoTupleDesc
    ELSE TD_new(d2.types \o d1.types, d2.names \o d1.names)

\* TupleDesc::merge.
TD_merge(d1, d2) ==
    IF \E i \in 1..TD_size(d1), j \in 1..TD_size(d2) : d1.names[i] = d2.names[j]
    THEN NoTupleDesc
    ELSE TD_new(d1.types \o d2.types, d1.names \o d2.names)

\* Values of the three field types: two ints, two doubles (as their
\* DOUBLE_SIZE-byte images: 0.0 and 1.5), and texts of lengths 0,
\* CHAR_SIZE - 1, CHAR_SIZE and CHAR_SIZE + 1.
IntVals == {258, -2}
DoubleVals == {[k \in 1..DOUBLE_SIZE |-> 0],
               [k \in 1..DOUBLE_SIZE |-> IF k = DOUBLE_SIZE THEN 63
                                         ELSE IF k = DOUBLE_SIZE - 1 THEN 248 ELSE 0]}
TextVals == {[k \in 1..n |-> 97] : n \in {0, CHAR_SIZE - 1, CHAR_SIZE, CHAR_SIZE + 1}}

FieldVals ==
    {[type |-> "INT", v |-> n] : n \in IntVals}
      \cup {[type |-> "DOUBLE", v |-> x] : x \in DoubleVals}
      \cup {[type |-> "CHAR", v |-> s] : s \in TextVals}

TupleVals == SeqsUpTo(FieldVals, MaxFields)

TupleDescs ==
    {d \in {TD_new(ty, nm) : ty \in SeqsUpTo(Types, MaxFields),
                             nm \in SeqsUpTo(Names, MaxFields)} : d.ok}

\* TupleDesc td(types, names)
NewTupleDesc(types, names) ==
    /\ td = NoTupleDesc
    /\ cRet.op = "none"
    /\ td' = TD_new(types, names)
    /\ cRet' = [op |-> "new", ok |-> td'.ok, a |-> types, b |-> names,
                out |-> <<>>]
    /\ UNCHANGED <<tdLen, pageVars, fileVars, capVars>>

\* merge, offset_of, serialize and deserialize do not change td (they are
\* static or const), so each is called once on a schema just constructed.

\* TupleDesc::merge(td, d2)
Merge(d2) ==
    /\ td.ok
    /\ cRet.op = "new"
    /\ LET r == TD_merge(td, d2)
       IN cRet' = [op |-> "merge", ok |-> r.ok, a |-> d2, b |-> <<>>, out |-> r]
    /\ UNCHANGED <<tdLen, pageVars, fileVars, capVars, td>>

\* td.offset_of(index)
OffsetOf(index) ==
    /\ td.ok
    /\ cRet.op = "new"
    /\ LET r == TD_offset_of(td, index)
       IN cRet' = [op |-> "offset_of", ok |-> ~r.threw, a |-> index, b |-> <<>>,
                   out |-> r.value]
    /\ UNCHANGED <<tdLen, pageVars, fileVars, capVars, td>>

\* td.serialize(data, t) for a tuple td.compatible(t) accepts
Serialize(t, g) ==
    /\ td.ok
    /\ cRet.op = "new"
    /\ TD_compatible(td, t)
    /\ cRet' = [op |-> "serialize", ok |-> TRUE, a |-> t, b |-> <<>>,
                out |-> TD_serialize(td, t, g)]
    /\ UNCHANGED <<tdLen, pageVars, fileVars, capVars, td>>

\* td.deserialize(data) on the buffer the last serialize filled
Deserialize(sfx, freed) ==
    /\ td.ok
    /\ cRet.op = "serialize"
    /\ LET done == TD_size(td) = 0 \/ freed = "returns"
       IN cRet' = [op |-> "deserialize", ok |-> done, a |-> cRet.a,
                   b |-> cRet.out,
                   out |-> IF done THEN TD_deserialize(td, cRet.out, sfx)
                           ELSE <<>>]
    /\ UNCHANGED <<tdLen, pageVars, fileVars, capVars, td>>

InitSchema ==
    /\ CodecIdle
    /\ tdLen = 1
    /\ PageIdle
    /\ FileIdle
    /\ CapIdle

NextSchema ==
    \/ \E types \in SeqsUpTo(Types, MaxFields), names \in SeqsUpTo(Names, MaxFields) :
          NewTupleDesc(types, names)
    \/ \E d2 \in TupleDescs : Merge(d2)
    \/ \E index \in 0..(MaxFields + 1) : OffsetOf(index)
    \/ \E t \in TupleVals, g \in UBBytes : Serialize(t, g)
    \/ \E sfx \in OverRead, freed \in FreeOutcomes : Deserialize(sfx, freed)

SpecSchema == InitSchema /\ [][NextSchema]_vars

\* C12: a deserialize that returns gives back the tuple serialize was given,
\* for every schema and compatible tuple, texts of length 0, CHAR_SIZE and
\* more than CHAR_SIZE included.
C12_RoundTrip ==
    cRet.op = "deserialize" /\ cRet.ok => cRet.out = cRet.a


\* C13: merge of schemas without a common name keeps td1's fields in order
\* followed by td2's; merge fails when any name of td1 equals any name of td2,
\* whatever the positions and types.
C13_MergeAppends ==
    cRet.op = "merge" =>
        IF \A i \in 1..Len(td.names), j \in 1..Len(cRet.a.names) :
               td.names[i] # cRet.a.names[j]
        THEN /\ cRet.ok
             /\ cRet.out.types = td.types \o cRet.a.types
             /\ cRet.out.names = td.names \o cRet.a.names
        ELSE ~cRet.ok

C13_Witness ==
    /\ cRet.op = "merge"
    /\ cRet.ok
    /\ Len(td.names) = MaxFields
    /\ Len(cRet.a.names) >= 1
    /\ td.types[1] # cRet.a.types[1]

\* C14: offset_of(index) is the sum of the widths of the fields before index
\* for index < size, and fails for every index >= size, index 0 of a schema
\* without fields included.
C14_OffsetOfRange ==
    cRet.op = "offset_of" =>
        IF cRet.a < TD_size(td)
        THEN cRet.ok /\ cRet.out = WidthsBefore(td.types, cRet.a)
        ELSE ~cRet.ok

\* C15: construction fails when two names are equal or the lists differ in
\* length, so every schema constructed, by merge too, has pairwise different
\* names and as many names as types.
ValidSchemaArgs(types, names) ==
    /\ \A i, j \in 1..Len(names) : i # j => names[i] # names[j]
    /\ Len(types) = Len(names)

C15_ConstructionValidates ==
    /\ cRet.op = "new" => (cRet.ok <=> ValidSchemaArgs(cRet.a, cRet.b))
    /\ td.ok => ValidSchemaArgs(td.types, td.names)
    /\ cRet.op = "merge" /\ cRet.ok => ValidSchemaArgs(cRet.out.types, cRet.out.names)

C15_Witness ==
    /\ cRet.op = "new"
    /\ ~cRet.ok
    /\ Len(cRet.a) # Len(cRet.b)
    /\ ValidSchemaArgs(cRet.b, cRet.b)


-----------------------------------------------------------------------------
\* Frame properties of HeapPage.

\* The bits of the header region, numbered as slots are.
HeaderBits == 0..(8 * dataOffset - 1)

\* The bytes of the data region that hold slot s.
SlotBytes(s) == (dataOffset + s * tdLen)..(dataOffset + (s + 1) * tdLen - 1)

DataBytes == dataOffset..(PageBytes - 1)

MinOf(S) == CHOOSE x \in S : \A y \in S : x <= y

\* C16: an insert into a page with an empty slot serializes the tuple into the
\* smallest empty slot and sets that slot's header bit; every other header
\* bit and every data byte outside the slot stay as they were.
C16_InsertFirstFit ==
    [][(hpRet'.op = "insert" /\ OccupiedSlots(page) # 0..(capacity - 1)) =>
          LET s == MinOf((0..(capacity - 1)) \ OccupiedSlots(page))
          IN /\ hpRet'.ok
             /\ hpRet'.res = s
             /\ ~empty(page', s)
             /\ \A b \in HeaderBits \ {s} : empty(page', b) <=> empty(page, b)
             /\ \A i \in SlotBytes(s) : page'[i] = hpRet'.tuple[i - dataOffset - s * tdLen + 1]
             /\ \A i \in DataBytes \ SlotBytes(s) : page'[i] = page[i]
      ]_vars

\* The insert reused slot 0, freed by a delete, below an occupied slot.
C16_Witness ==
    /\ hpRet.op = "insert"
    /\ hpRet.ok
    /\ hpRet.res = 0
    /\ capacity >= 3
    /\ OccupiedSlots(page) = {0, 1}
    /\ \E i \in SlotBytes(2) : page[i] # 0

C18_BeginNextResults ==
    /\ hpRet.op = "begin" =>
          /\ hpRet.res = MinOf(OccupiedSlots(page) \cup {capacity})
          /\ \A b \in HeaderBits \ (0..(capacity - 1)) :
                HP_begin(SetHeaderBit(page, b)) = hpRet.res
    /\ (hpRet.op = "next" /\ hpRet.arg < capacity) =>
          /\ hpRet.res = MinOf({s \in OccupiedSlots(page) : s > hpRet.arg}
                                 \cup {capacity})
          /\ \A b \in HeaderBits \ (0..(capacity - 1)) :
                HP_next(SetHeaderBit(page, b), hpRet.arg) = hpRet.res

C18_Witness ==
    /\ hpRet.op = "next"
    /\ hpRet.arg = 0
    /\ hpRet.res = 2
    /\ OccupiedSlots(page) = {0, 2}

\* C19: from a zeroed page, through inserts and deletes with any slot
\* argument, the header bits from capacity on stay 0, a delete changes no
\* byte of the data region, and an insert changes no header bit but its
\* slot's.
C19_HeaderSlack ==
    [][/\ \A b \in HeaderBits \ (0..(capacity - 1)) : empty(page', b)
       /\ hpRet'.op = "delete" => \A i \in DataBytes : page'[i] = page[i]
       /\ hpRet'.op = "insert" =>
              \A b \in HeaderBits \ {hpRet'.res} : empty(page', b) <=> empty(page, b)
      ]_vars


-----------------------------------------------------------------------------
\* Conservation of tuples in a HeapFile.

\* The occupied slots of pages 0 .. n - 1 of the file, each as readPage
\* delivers it.
RECURSIVE OccupiedInFile(_)
OccupiedInFile(n) ==
    IF n = 0 THEN 0
    ELSE OccupiedInFile(n - 1)
           + Cardinality(OccupiedSlots(readPage(ZeroPage, n - 1)))

\* Every insertTuple and every deleteTuple that returns ends in one
\* writePage, so the writes that are not inserts are the deletes that returned.
SuccessfulDeletes == Len(writes) - nInserts

\* C20: the occupied slots over all pages are as many as the inserts minus
\* the successful deletes, the page count never decreases, and getTuple at a
\* cursor that holds a tuple returns the tuple inserted there.
C20_TuplesConserved ==
    /\ [](OccupiedInFile(numPages) = nInserts - SuccessfulDeletes)
    /\ []((hfRet.op = "get" /\ hfRet.arg \in landed) => hfRet.tuple \in Tuples)
    /\ [][numPages' >= numPages]_vars

====
